---- MODULE Spec2Model ----
(***************************************************************************)
(* Lost & Found: the claim-handshake workflow of src/items (Django).       *)
(*                                                                         *)
(* The database tables Item, Claim and Message are functions from primary  *)
(* keys to rows.  The specifications are given over the same variables:    *)
(*   Spec      every view runs to completion as one step (requests served  *)
(*             one after the other), the admin's item form included;       *)
(*   SpecViews the same without the admin;                                 *)
(*   SpecConc  the views that read and then write are split at their       *)
(*             database statements, and two requests interleave.  The      *)
(*             project sets neither ATOMIC_REQUESTS nor transaction.atomic,*)
(*             so every statement commits on its own (autocommit).         *)
(*   SpecChat  the message thread of a claim: the claim page, the message  *)
(*             list and the send endpoint, with a clock that may stand     *)
(*             still between two sends;                                    *)
(*   SpecPoll  the sends and one chat page that polls the message list;    *)
(*   SpecThread the send endpoint under the views that change items and    *)
(*             claims;                                                     *)
(*   SpecTokens several items and their handshake tokens;                  *)
(*   SpecEdit  an item update split at its two database statements;        *)
(*   SpecCascade the deletion of items that carry claims and messages;     *)
(*   SpecHandshake the handshake link over items in every status;          *)
(*   SpecLength the two ways a message body reaches the table;             *)
(*   SpecWorkflow submit and respond alone, with every response.           *)
(***************************************************************************)
EXTENDS Integers, FiniteSets, Sequences, TLC

\* ------------------------------------------------------------------ bounds
NumUsers == 3
MaxItems == 1
MaxClaims == 2
NumTitles == 2
NumProofs == 2
MaxReqs == 2
MaxMsgs == 3
MaxClock == 2
MaxBodyLen == 2
MaxTokenItems == 2

Users == 1..NumUsers
ItemIds == 1..MaxItems
ClaimIds == 1..MaxClaims
Tokens == 1..MaxItems
\* 0 is the blank title, which ItemForm refuses (required field)
Titles == 0..NumTitles
\* 0 is the blank proof text, which ClaimForm refuses (required field)
Proofs == 0..NumProofs
Reqs == 1..MaxReqs
MsgIds == 1..MaxMsgs
\* the characters of a message body: a blank and a letter
Chars == {" ", "a"}
\* the texts a client can post as a message body
Bodies == UNION {[1..n -> Chars] : n \in 0..MaxBodyLen}
\* max_length of Message.body (1000 characters in the source), in the unit
\* of this model: the texts posted here are up to MaxBodyLen characters long,
\* which is more than the limit
BodyMaxLength == 1

\* ------------------------------------------------------- models.py enums
FOUND == "found"
CLAIMED == "claimed"
RETURNED == "returned"
ItemStatus == {FOUND, CLAIMED, RETURNED}

PENDING == "pending"
APPROVED == "approved"
REJECTED == "rejected"
ClaimStatus == {PENDING, APPROVED, REJECTED}

\* the <str:action> part of the claim_respond URL; "other" is any other word
Actions == {"approve", "reject", "other"}

VARIABLES
    items,      \* table Item:  pk -> [finder, title, status, handshake_uuid, qr_code]
    claims,     \* table Claim: pk -> [item, seeker, proof_of_ownership, status]
    itemSeq,    \* number of Item pks handed out by uuid.uuid4 so far
    claimSeq,   \* number of Claim pks handed out by uuid.uuid4 so far
    reqs,       \* SpecConc: the requests in flight, slot -> position and locals
    resp,       \* the response of the request that finished last
    msgs,       \* table Message: pk -> [claim, sender, body, created_at]
    msgSeq,     \* number of Message pks handed out by uuid.uuid4 so far
    now,        \* the server clock that auto_now_add reads
    client      \* the chat page of one participant: what its polling received

\* the chat: the Message table, the clock and the polling page
chat == <<msgs, msgSeq, now, client>>

vars == <<items, claims, itemSeq, claimSeq, reqs, resp, msgs, msgSeq, now, client>>

NA == 0
NoStatus == "none"

\* the in-memory model instances a view holds; the No* rows stand for "no
\* instance loaded"
NoItemRow == [finder |-> NA, title |-> NA, status |-> NoStatus,
              handshake_uuid |-> NA, qr_code |-> FALSE]
NoClaimRow == [item |-> NA, seeker |-> NA, proof_of_ownership |-> NA,
               status |-> NoStatus]

\* a request slot that serves nothing
Idle == [pc |-> "idle", iid |-> NA, cid |-> NA, act |-> "none",
         item |-> NoItemRow, claim |-> NoClaimRow]

\* what a view answered: the view, the outcome, the rows the answer names,
\* and the statuses those rows had when the view read them
Response(op, outcome, iid, cid, act, preItem, preClaim) ==
    [op |-> op, outcome |-> outcome, item |-> iid, claim |-> cid,
     act |-> act, preItem |-> preItem, preClaim |-> preClaim, proof |-> NA,
     user |-> NA, after |-> NA, list |-> << >>, msg |-> NA]

\* the answer of claim_create, with the proof text that was posted
Submitted(r, proof) == [r EXCEPT !.proof = proof]

\* an answer that refuses the caller, with the caller
Refused(r, u) == [r EXCEPT !.user = u]

\* an answer that names no row
Plain(op, outcome) == Response(op, outcome, NA, NA, "none", NoStatus, NoStatus)

NoResponse == Plain("none", "none")

\* a chat page that has not polled yet: no claim, no cursor, nothing received
NoClient == [claim |-> NA, cursor |-> NA, seen |-> {}]

Init ==
    /\ items = << >>
    /\ claims = << >>
    /\ itemSeq = 0
    /\ claimSeq = 0
    /\ reqs = [r \in Reqs |-> Idle]
    /\ resp = NoResponse
    /\ msgs = << >>
    /\ msgSeq = 0
    /\ now = 1
    /\ client = NoClient

\* ------------------------------------------------------------ the ORM
\* Item(...) as ItemForm.save(commit=False) builds it in item_create: the
\* status default, a fresh handshake_uuid, no QR image yet
NewItem(finder, title, token) ==
    [finder |-> finder, title |-> title, status |-> FOUND,
     handshake_uuid |-> token, qr_code |-> FALSE]

\* the new claim built as already approved
NewClaim_Approved(iid, seeker, proof) ==
    [item |-> iid, seeker |-> seeker, proof_of_ownership |-> proof,
     status |-> APPROVED]

\* Claim(...) as ClaimForm.save(commit=False) builds it in claim_create
NewClaim(iid, seeker, proof) ==
    [item |-> iid, seeker |-> seeker, proof_of_ownership |-> proof,
     status |-> PENDING]

\* the unique index left off handshake_uuid
UniqueHandshake_Absent(its, pk, obj) == TRUE

\* Item.handshake_uuid is unique=True: no other row carries the token
UniqueHandshake(its, pk, obj) ==
    \A j \in DOMAIN its : j # pk => its[j].handshake_uuid # obj.handshake_uuid

\* Item.save: generate the QR image when it is missing, then Model.save
ItemBeforeSave(obj) ==
    IF obj.qr_code THEN obj ELSE [obj EXCEPT !.qr_code = TRUE]

\* Model.save of an Item: UPDATE of every column of the row with this pk,
\* INSERT when no such row exists; IntegrityError on a duplicate token
ItemSaveOk(its, pk, obj) == UniqueHandshake(its, pk, obj)

ItemSave(its, pk, obj) ==
    [j \in DOMAIN its \cup {pk} |-> IF j = pk THEN ItemBeforeSave(obj) ELSE its[j]]

\* the constraint left out of Claim.Meta
UniqueClaimPerSeekerPerItem_Absent(cls, pk, obj) == TRUE

\* UniqueConstraint(fields=["item", "seeker"]) of Claim.Meta
UniqueClaimPerSeekerPerItem(cls, pk, obj) ==
    \A d \in DOMAIN cls :
        d # pk => ~(cls[d].item = obj.item /\ cls[d].seeker = obj.seeker)

\* Model.save of a Claim: UPDATE of every column, INSERT when the row is
\* gone; the foreign key to Item and the unique constraint are checked
ClaimSaveOk(its, cls, pk, obj) ==
    /\ obj.item \in DOMAIN its
    /\ UniqueClaimPerSeekerPerItem(cls, pk, obj)

ClaimSave(cls, pk, obj) ==
    [d \in DOMAIN cls \cup {pk} |-> IF d = pk THEN obj ELSE cls[d]]

\* Item.delete: on_delete=CASCADE removes the Claims of the Item
ItemsAfterDelete(its, pk) == [j \in DOMAIN its \ {pk} |-> its[j]]

ClaimsAfterDelete(cls, pk) ==
    [d \in {e \in DOMAIN cls : cls[e].item # pk} |-> cls[d]]

\* the messages staying behind
MsgsAfterDelete_Kept(ms, cls, pk) == ms

\* Message.claim is on_delete=CASCADE too: the messages of those claims go
MsgsAfterDelete(ms, cls, pk) ==
    [m \in {n \in DOMAIN ms : cls[ms[n].claim].item # pk} |-> ms[m]]

MaxOf(S) == CHOOSE x \in S : \A y \in S : y <= x

\* the check for an existing claim finding nothing
ExistingClaim_None(cls, iid, user) == NA

\* Claim.objects.filter(item=item, seeker=user).first(); Meta.ordering is
\* -created_at, so the newest row comes first; NA when there is none
ExistingClaim(cls, iid, user) ==
    LET S == {d \in DOMAIN cls : cls[d].item = iid /\ cls[d].seeker = user}
    IN  IF S = {} THEN NA ELSE MaxOf(S)

\* the lookup finding Found items only
ResolveHandshake_FoundOnly(its, token) ==
    LET S == {j \in DOMAIN its :
                 its[j].handshake_uuid = token /\ its[j].status = FOUND}
    IN  IF S = {} THEN NA ELSE MaxOf(S)

\* Item.objects.get(handshake_uuid=...): the pk of the row, NA when none
ResolveHandshake(its, token) ==
    LET S == {j \in DOMAIN its : its[j].handshake_uuid = token}
    IN  IF S = {} THEN NA ELSE MaxOf(S)

\* the own-item check left out
IsOwnItem_Never(item, user) == FALSE

\* claim_create, line 127: the finder may not claim the own item
IsOwnItem(item, user) == item.finder = user

\* every caller passing for the finder
IsFinder_Anyone(item, user) == TRUE

\* claim_respond, line 189: only the finder of the item responds
IsFinder(item, user) == item.finder = user

\* both branches setting Approved
ClaimAfterRespond_AlwaysApproved(claim, act) ==
    IF act \in {"approve", "reject"} THEN [claim EXCEPT !.status = APPROVED]
    ELSE claim

\* claim_respond, lines 192-199: the in-memory claim after the branch
ClaimAfterRespond(claim, act) ==
    IF act = "approve" THEN [claim EXCEPT !.status = APPROVED]
    ELSE IF act = "reject" THEN [claim EXCEPT !.status = REJECTED]
    ELSE claim

\* the approve branch not touching the item
ItemAfterRespond_Untouched(item, act) == item

\* claim_respond, line 194: the in-memory item after the branch
ItemAfterRespond(item, act) ==
    IF act = "approve" THEN [item EXCEPT !.status = CLAIMED] ELSE item

\* ------------------------------------------------- Spec: one step per view
\* item_create (POST): a valid form inserts a Found item owned by the caller;
\* title 0 is the blank title, which ItemForm refuses; cap is the number of
\* items the specification lets exist
item_create_upto(cap, u, title, token) ==
    /\ title # 0 => itemSeq < cap
    /\ LET pk == itemSeq + 1
           obj == [NewItem(NA, title, token) EXCEPT !.finder = u]
       IN  IF title = 0
           THEN /\ UNCHANGED <<items, itemSeq>>
                /\ resp' = Plain("item_create", "form_invalid")
           ELSE IF ~ItemSaveOk(items, pk, obj)
           THEN /\ UNCHANGED <<items, itemSeq>>
                /\ resp' = Plain("item_create", "integrity_error")
           ELSE /\ items' = ItemSave(items, pk, obj)
                /\ itemSeq' = pk
                /\ resp' = Response("item_create", "created", pk, NA, "none",
                                    NoStatus, NoStatus)
    /\ UNCHANGED <<claims, claimSeq, reqs>>
    /\ UNCHANGED chat

item_create(u, title, token) == item_create_upto(MaxItems, u, title, token)

\* item_edit (POST): get_object_or_404(Item, pk=pk, finder=user), then the
\* form's fields are set on the loaded instance and the whole row is saved
item_edit(u, pk, title) ==
    /\ IF pk \notin DOMAIN items
       THEN /\ UNCHANGED items
            /\ resp' = Plain("item_edit", "not_found")
       ELSE IF ~IsFinder(items[pk], u)
       THEN /\ UNCHANGED items
            /\ resp' = Refused(Response("item_edit", "not_found", pk, NA,
                                "none", NoStatus, NoStatus), u)
       ELSE IF title = 0
       THEN /\ UNCHANGED items
            /\ resp' = Plain("item_edit", "form_invalid")
       ELSE /\ items' = ItemSave(items, pk, [items[pk] EXCEPT !.title = title])
            /\ resp' = Response("item_edit", "updated", pk, NA, "none",
                                items[pk].status, NoStatus)
    /\ UNCHANGED <<claims, itemSeq, claimSeq, reqs>>
    /\ UNCHANGED chat

\* item_delete (POST): finder only; the delete cascades to the claims
item_delete(u, pk) ==
    /\ IF pk \notin DOMAIN items
       THEN /\ UNCHANGED <<items, claims, msgs>>
            /\ resp' = Plain("item_delete", "not_found")
       ELSE IF ~IsFinder(items[pk], u)
       THEN /\ UNCHANGED <<items, claims, msgs>>
            /\ resp' = Refused(Response("item_delete", "not_found", pk, NA,
                                "none", NoStatus, NoStatus), u)
       ELSE /\ items' = ItemsAfterDelete(items, pk)
            /\ claims' = ClaimsAfterDelete(claims, pk)
            /\ msgs' = MsgsAfterDelete(msgs, claims, pk)
            /\ resp' = Response("item_delete", "deleted", pk, NA, "none",
                                NoStatus, NoStatus)
    /\ UNCHANGED <<itemSeq, claimSeq, reqs, msgSeq, now, client>>

\* item_detail: public; saves the item again when its QR image is missing
item_detail(u, pk) ==
    /\ IF pk \notin DOMAIN items
       THEN /\ UNCHANGED items
            /\ resp' = Plain("item_detail", "not_found")
       ELSE /\ items' = IF items[pk].qr_code THEN items
                        ELSE ItemSave(items, pk, items[pk])
            /\ resp' = Plain("item_detail", "shown")
    /\ UNCHANGED <<claims, itemSeq, claimSeq, reqs>>
    /\ UNCHANGED chat

\* item_handshake: the token resolves to its item whatever the status, and
\* the caller is redirected to claim_create of that item
item_handshake(u, token) ==
    /\ LET pk == ResolveHandshake(items, token)
       IN  IF pk = NA
           THEN resp' = Plain("item_handshake", "not_found")
           ELSE resp' = Response("item_handshake", "redirect_claim_create",
                                 pk, NA, "none", items[pk].status, NoStatus)
    /\ UNCHANGED <<items, claims, itemSeq, claimSeq, reqs>>
    /\ UNCHANGED chat

\* claim_create, lines 124-139: what the view decides before it writes
ClaimCreateDecision(its, cls, u, iid, proof) ==
    IF iid \notin DOMAIN its THEN "not_found"
    ELSE IF IsOwnItem(its[iid], u) THEN "own_item"
    ELSE IF ExistingClaim(cls, iid, u) # NA THEN "existing"
    ELSE IF proof = 0 THEN "form_invalid"
    ELSE "insert"

\* claim_create (POST), the whole view
claim_create(u, iid, proof) ==
    /\ ClaimCreateDecision(items, claims, u, iid, proof) = "insert"
           => claimSeq < MaxClaims
    /\ LET d == ClaimCreateDecision(items, claims, u, iid, proof)
           pk == claimSeq + 1
           obj == NewClaim(iid, u, proof)
       IN  IF d = "existing"
           THEN /\ UNCHANGED <<claims, claimSeq>>
                /\ resp' = Submitted(Response("claim_create", "existing", iid,
                                    ExistingClaim(claims, iid, u), "none",
                                    items[iid].status, NoStatus), proof)
           ELSE IF d # "insert"
           THEN /\ UNCHANGED <<claims, claimSeq>>
                /\ resp' = Plain("claim_create", d)
           ELSE IF ~ClaimSaveOk(items, claims, pk, obj)
           THEN /\ UNCHANGED <<claims, claimSeq>>
                /\ resp' = Plain("claim_create", "integrity_error")
           ELSE /\ claims' = ClaimSave(claims, pk, obj)
                /\ claimSeq' = pk
                /\ resp' = Submitted(Response("claim_create", "created", iid,
                                    pk, "none", items[iid].status, NoStatus), proof)
    /\ UNCHANGED <<items, itemSeq, reqs>>
    /\ UNCHANGED chat

\* claim_respond (POST), the whole view: no check of the claim's or the
\* item's current status; item.save() first, claim.save() second
claim_respond(u, cid, act) ==
    /\ IF cid \notin DOMAIN claims
       THEN /\ UNCHANGED <<items, claims>>
            /\ resp' = Plain("claim_respond", "not_found")
       ELSE LET claim == claims[cid]
                iid == claim.item
                item == items[iid]
            IN  IF ~IsFinder(item, u)
                THEN /\ UNCHANGED <<items, claims>>
                     /\ resp' = Refused(Response("claim_respond", "not_found",
                                         NA, cid, "none", NoStatus, NoStatus), u)
                ELSE IF act \notin {"approve", "reject"}
                THEN /\ UNCHANGED <<items, claims>>
                     /\ resp' = Plain("claim_respond", "not_found")
                ELSE /\ items' = IF act = "approve"
                                 THEN ItemSave(items, iid, ItemAfterRespond(item, act))
                                 ELSE items
                     /\ claims' = ClaimSave(claims, cid, ClaimAfterRespond(claim, act))
                     /\ resp' = Response("claim_respond", "responded", iid,
                                         cid, act, item.status, claim.status)
    /\ UNCHANGED <<itemSeq, claimSeq, reqs>>
    /\ UNCHANGED chat

\* ItemAdmin change form: status is not among readonly_fields, so staff can
\* set it; this is the only way an item becomes Returned
admin_item_change(pk, status) ==
    /\ pk \in DOMAIN items
    /\ items' = ItemSave(items, pk, [items[pk] EXCEPT !.status = status])
    /\ resp' = Plain("admin_item_change", "updated")
    /\ UNCHANGED <<claims, itemSeq, claimSeq, reqs>>
    /\ UNCHANGED chat

Next ==
    \/ \E u \in Users, title \in Titles, token \in Tokens :
          item_create(u, title, token)
    \/ \E u \in Users, pk \in ItemIds, title \in Titles :
          item_edit(u, pk, title)
    \/ \E u \in Users, pk \in ItemIds : item_delete(u, pk)
    \/ \E u \in Users, pk \in ItemIds : item_detail(u, pk)
    \/ \E u \in Users, token \in Tokens : item_handshake(u, token)
    \/ \E u \in Users, pk \in ItemIds, proof \in Proofs :
          claim_create(u, pk, proof)
    \/ \E u \in Users, pk \in ClaimIds, act \in Actions :
          claim_respond(u, pk, act)
    \/ \E pk \in ItemIds, status \in ItemStatus : admin_item_change(pk, status)

Spec == Init /\ [][Next]_vars

\* the views of the site without the admin
NextViews ==
    \/ \E u \in Users, title \in Titles, token \in Tokens :
          item_create(u, title, token)
    \/ \E u \in Users, pk \in ItemIds, title \in Titles :
          item_edit(u, pk, title)
    \/ \E u \in Users, pk \in ItemIds : item_delete(u, pk)
    \/ \E u \in Users, pk \in ItemIds : item_detail(u, pk)
    \/ \E u \in Users, token \in Tokens : item_handshake(u, token)
    \/ \E u \in Users, pk \in ItemIds, proof \in Proofs :
          claim_create(u, pk, proof)
    \/ \E u \in Users, pk \in ClaimIds, act \in Actions :
          claim_respond(u, pk, act)

SpecViews == Init /\ [][NextViews]_vars

\* ------------------------------------- SpecConc: one step per statement
\* Each view that reads and then writes is split where it touches the
\* database.  The reads of one view are taken at one instant; the instances
\* it loaded stay in the request until its saves write them back whole.
Slot(r, pc, iid, cid, act, item, claim) ==
    [reqs EXCEPT ![r] = [pc |-> pc, iid |-> iid, cid |-> cid, act |-> act,
                         item |-> item, claim |-> claim]]

Release(r) == [reqs EXCEPT ![r] = Idle]

\* in this specification an answer names the view, the outcome and the claim
Answer(op, outcome, cid) ==
    Response(op, outcome, NA, cid, "none", NoStatus, NoStatus)

\* claim_create, lines 124-142: the item is fetched, the finder and the
\* existing claim are checked, the form is validated, the instance is built
claim_create_check(r, u, iid, proof) ==
    /\ reqs[r].pc = "idle"
    /\ LET d == ClaimCreateDecision(items, claims, u, iid, proof)
       IN  IF d = "insert"
           THEN /\ reqs' = Slot(r, "create_insert", iid, NA, "none",
                                items[iid], NewClaim(iid, u, proof))
                /\ UNCHANGED resp
           ELSE IF d = "existing"
           THEN /\ UNCHANGED reqs
                /\ resp' = Answer("claim_create", "existing",
                                  ExistingClaim(claims, iid, u))
           ELSE /\ UNCHANGED reqs
                /\ resp' = Plain("claim_create", d)
    /\ UNCHANGED <<items, claims, itemSeq, claimSeq>>
    /\ UNCHANGED chat

\* claim_create, line 143: claim.save() inserts; the database refuses the
\* row when the item is gone or the (item, seeker) pair exists, and the view
\* does not catch the IntegrityError
claim_create_insert(r) ==
    /\ reqs[r].pc = "create_insert"
    /\ LET pk == claimSeq + 1
           obj == reqs[r].claim
       IN  IF ~ClaimSaveOk(items, claims, pk, obj)
           THEN /\ UNCHANGED <<claims, claimSeq>>
                /\ resp' = Plain("claim_create", "integrity_error")
           ELSE /\ claimSeq < MaxClaims
                /\ claims' = ClaimSave(claims, pk, obj)
                /\ claimSeq' = pk
                /\ resp' = Answer("claim_create", "created", pk)
    /\ reqs' = Release(r)
    /\ UNCHANGED <<items, itemSeq>>
    /\ UNCHANGED chat

\* claim_respond, lines 187-201: the claim and its item are loaded, the
\* caller and the action word are checked
claim_respond_load(r, u, cid, act) ==
    /\ reqs[r].pc = "idle"
    /\ IF cid \notin DOMAIN claims
       THEN /\ UNCHANGED reqs
            /\ resp' = Plain("claim_respond", "not_found")
       ELSE LET claim == claims[cid]
                item == items[claim.item]
            IN  IF ~IsFinder(item, u) \/ act \notin {"approve", "reject"}
                THEN /\ UNCHANGED reqs
                     /\ resp' = Plain("claim_respond", "not_found")
                ELSE /\ reqs' = Slot(r, IF act = "approve"
                                        THEN "respond_item_save"
                                        ELSE "respond_claim_save",
                                     claim.item, cid, act, item, claim)
                     /\ UNCHANGED resp
    /\ UNCHANGED <<items, claims, itemSeq, claimSeq>>
    /\ UNCHANGED chat

\* claim_respond, line 195: claim.item.save() writes the whole item row
claim_respond_item_save(r) ==
    /\ reqs[r].pc = "respond_item_save"
    /\ LET obj == ItemAfterRespond(reqs[r].item, reqs[r].act)
       IN  IF ~ItemSaveOk(items, reqs[r].iid, obj)
           THEN /\ UNCHANGED items
                /\ reqs' = Release(r)
                /\ resp' = Plain("claim_respond", "integrity_error")
           ELSE /\ items' = ItemSave(items, reqs[r].iid, obj)
                /\ reqs' = [reqs EXCEPT ![r].pc = "respond_claim_save"]
                /\ UNCHANGED resp
    /\ UNCHANGED <<claims, itemSeq, claimSeq>>
    /\ UNCHANGED chat

\* claim_respond, line 203: claim.save() writes the whole claim row
claim_respond_claim_save(r) ==
    /\ reqs[r].pc = "respond_claim_save"
    /\ LET obj == ClaimAfterRespond(reqs[r].claim, reqs[r].act)
       IN  IF ~ClaimSaveOk(items, claims, reqs[r].cid, obj)
           THEN /\ UNCHANGED claims
                /\ resp' = Plain("claim_respond", "integrity_error")
           ELSE /\ claims' = ClaimSave(claims, reqs[r].cid, obj)
                /\ resp' = Response("claim_respond", "responded", NA,
                                    reqs[r].cid, reqs[r].act, NoStatus, NoStatus)
    /\ reqs' = Release(r)
    /\ UNCHANGED <<items, itemSeq, claimSeq>>
    /\ UNCHANGED chat

\* a request dies between two of its statements (worker killed, connection
\* lost); what it wrote so far stays, every statement having committed
request_fails(r) ==
    /\ reqs[r].pc # "idle"
    /\ resp' = Response(IF reqs[r].pc = "create_insert" THEN "claim_create"
                        ELSE "claim_respond",
                        IF reqs[r].pc = "respond_claim_save"
                           /\ reqs[r].act = "approve"
                        THEN "failed_between_writes" ELSE "failed",
                        NA, reqs[r].cid, reqs[r].act, NoStatus, NoStatus)
    /\ reqs' = Release(r)
    /\ UNCHANGED <<items, claims, itemSeq, claimSeq>>
    /\ UNCHANGED chat

\* The races are between the statements, not between the texts: one title
\* and one proof text are posted here, the blank proof besides
NextConc ==
    \/ \E u \in Users, token \in Tokens : item_create(u, 1, token)
    \/ \E r \in Reqs, u \in Users, pk \in ItemIds, proof \in 0..1 :
          claim_create_check(r, u, pk, proof)
    \/ \E r \in Reqs : claim_create_insert(r)
    \/ \E r \in Reqs, u \in Users, pk \in ClaimIds, act \in Actions :
          claim_respond_load(r, u, pk, act)
    \/ \E r \in Reqs : claim_respond_item_save(r)
    \/ \E r \in Reqs : claim_respond_claim_save(r)
    \/ \E r \in Reqs : request_fails(r)

SpecConc == Init /\ [][NextConc]_vars

\* ------------------------------------------------- SpecChat: the messages
\* str.strip() and the strip of forms.CharField: the text without its
\* leading and trailing blanks
RECURSIVE LStrip(_)
LStrip(b) ==
    IF Len(b) > 0 /\ b[1] = " " THEN LStrip(SubSeq(b, 2, Len(b))) ELSE b

RECURSIVE RStrip(_)
RStrip(b) ==
    IF Len(b) > 0 /\ b[Len(b)] = " " THEN RStrip(SubSeq(b, 1, Len(b) - 1)) ELSE b

\* the text taken as posted
Strip_Identity(b) == b

Strip(b) == RStrip(LStrip(b))

\* MessageForm.is_valid(): body is required and is stripped before the test,
\* and the form field takes max_length from the model field
MessageFormValid(body) ==
    Strip(body) # << >> /\ Len(Strip(body)) <= BodyMaxLength

\* every caller passing for a participant
IsParticipant_Anyone(claim, item, user) == TRUE

\* claim_detail line 160, api_messages line 229, api_send_message line 262:
\* the seeker of the claim and the finder of its item are the participants
IsParticipant(claim, item, user) == user = claim.seeker \/ user = item.finder

\* Message(claim=..., sender=..., body=...) with created_at = auto_now_add
NewMessage(cid, sender, body, t) ==
    [claim |-> cid, sender |-> sender, body |-> body, created_at |-> t]

\* the new row taking the place of the table
MessageSave_Replacing(ms, pk, obj) == [m \in {pk} |-> obj]

\* Model.save of a new Message: INSERT
MessageSave(ms, pk, obj) ==
    [m \in DOMAIN ms \cup {pk} |-> IF m = pk THEN obj ELSE ms[m]]

\* claim.messages: the rows of Message with this claim
ThreadOf(ms, cid) == {m \in DOMAIN ms : ms[m].claim = cid}

\* the cursor's own timestamp passing the filter
MessagesSince_Inclusive(ms, cid, after) ==
    IF after \in DOMAIN ms
    THEN {m \in ThreadOf(ms, cid) : ms[m].created_at >= ms[after].created_at}
    ELSE ThreadOf(ms, cid)

\* api_messages, lines 232-241: Message.objects.get(pk=after) looks among all
\* messages; created_at__gt filters the thread; Message.DoesNotExist (and no
\* "after" at all, NA) leaves the whole thread
MessagesSince(ms, cid, after) ==
    IF after \in DOMAIN ms
    THEN {m \in ThreadOf(ms, cid) : ms[m].created_at > ms[after].created_at}
    ELSE ThreadOf(ms, cid)

\* Message.Meta.ordering = ["created_at"]: ORDER BY created_at and nothing
\* else, so rows with equal created_at come in whatever order the database
\* produces them; every order the clause allows is a possible result
Orderings(ms, S) ==
    {l \in [1..Cardinality(S) -> S] :
        /\ \A i, j \in 1..Cardinality(S) : i # j => l[i] # l[j]
        /\ \A i, j \in 1..Cardinality(S) :
              i < j => ms[l[i]].created_at <= ms[l[j]].created_at}

\* the messages a list names
Listed(l) == {l[i] : i \in 1..Len(l)}

\* the answer of api_messages, with the cursor asked for and the rows listed
Listing(r, after, l) == [r EXCEPT !.after = after, !.list = l]

\* the answer of a send, with the message created
Sent(r, pk) == [r EXCEPT !.msg = pk]

\* an answer about a claim
AboutClaim(op, outcome, cid) ==
    Response(op, outcome, NA, cid, "none", NoStatus, NoStatus)

\* time passes on the server
Tick ==
    /\ now < MaxClock
    /\ now' = now + 1
    /\ UNCHANGED <<items, claims, itemSeq, claimSeq, reqs, resp, msgs, msgSeq,
                   client>>

\* claim_detail: the chat page; post says whether the request is a POST of
\* the message form, body is the text posted
claim_detail(u, cid, post, body) ==
    /\ (/\ cid \in DOMAIN claims
        /\ IsParticipant(claims[cid], items[claims[cid].item], u)
        /\ post /\ MessageFormValid(body)) => msgSeq < MaxMsgs
    /\ IF cid \notin DOMAIN claims
       THEN /\ UNCHANGED <<msgs, msgSeq>>
            /\ resp' = Plain("claim_detail", "not_found")
       ELSE IF ~IsParticipant(claims[cid], items[claims[cid].item], u)
       THEN /\ UNCHANGED <<msgs, msgSeq>>
            /\ resp' = Refused(AboutClaim("claim_detail", "not_found", cid), u)
       ELSE IF ~post
       THEN /\ UNCHANGED <<msgs, msgSeq>>
            /\ resp' = AboutClaim("claim_detail", "shown", cid)
       ELSE IF ~MessageFormValid(body)
       THEN /\ UNCHANGED <<msgs, msgSeq>>
            /\ resp' = AboutClaim("claim_detail", "form_invalid", cid)
       ELSE /\ msgs' = MessageSave(msgs, msgSeq + 1,
                                   NewMessage(cid, u, Strip(body), now))
            /\ msgSeq' = msgSeq + 1
            /\ resp' = Sent(AboutClaim("claim_detail", "redirect", cid),
                            msgSeq + 1)
    /\ UNCHANGED <<items, claims, itemSeq, claimSeq, reqs, now, client>>

\* api_messages (GET): the thread, or what came after the message "after"
api_messages(u, cid, after) ==
    /\ IF cid \notin DOMAIN claims
       THEN resp' = Plain("api_messages", "not_found")
       ELSE IF ~IsParticipant(claims[cid], items[claims[cid].item], u)
       THEN resp' = Refused(AboutClaim("api_messages", "forbidden", cid), u)
       ELSE \E l \in Orderings(msgs, MessagesSince(msgs, cid, after)) :
               resp' = Listing(AboutClaim("api_messages", "ok", cid), after, l)
    /\ UNCHANGED <<items, claims, itemSeq, claimSeq, reqs, msgs, msgSeq, now,
                   client>>

\* api_send_message (POST): the stripped body is stored unless it is empty
api_send_message(u, cid, body) ==
    /\ (/\ cid \in DOMAIN claims
        /\ IsParticipant(claims[cid], items[claims[cid].item], u)
        /\ Strip(body) # << >>) => msgSeq < MaxMsgs
    /\ IF cid \notin DOMAIN claims
       THEN /\ UNCHANGED <<msgs, msgSeq>>
            /\ resp' = Plain("api_send_message", "not_found")
       ELSE IF ~IsParticipant(claims[cid], items[claims[cid].item], u)
       THEN /\ UNCHANGED <<msgs, msgSeq>>
            /\ resp' = Refused(AboutClaim("api_send_message", "forbidden", cid), u)
       ELSE IF Strip(body) = << >>
       THEN /\ UNCHANGED <<msgs, msgSeq>>
            /\ resp' = AboutClaim("api_send_message", "empty_message", cid)
       ELSE /\ msgs' = MessageSave(msgs, msgSeq + 1,
                                   NewMessage(cid, u, Strip(body), now))
            /\ msgSeq' = msgSeq + 1
            /\ resp' = Sent(AboutClaim("api_send_message", "created", cid),
                            msgSeq + 1)
    /\ UNCHANGED <<items, claims, itemSeq, claimSeq, reqs, now, client>>

\* the bodies posted in the chat: at most one letter, blanks around it
ChatBodies == {b \in Bodies : Cardinality({i \in 1..Len(b) : b[i] # " "}) <= 1}

\* The chat is about the thread, not about the item's texts: one title and
\* one proof text are posted here.  The users being interchangeable, the
\* item is reported by the first of them
NextChat ==
    \/ \E token \in Tokens : item_create(1, 1, token)
    \/ \E u \in Users, pk \in ItemIds : claim_create(u, pk, 1)
    \/ Tick
    \/ \E u \in Users, pk \in ClaimIds : claim_detail(u, pk, FALSE, << >>)
    \/ \E u \in Users, pk \in ClaimIds, body \in ChatBodies :
          claim_detail(u, pk, TRUE, body)
    \/ \E u \in Users, pk \in ClaimIds, after \in MsgIds \cup {NA} :
          api_messages(u, pk, after)
    \/ \E u \in Users, pk \in ClaimIds, body \in ChatBodies :
          api_send_message(u, pk, body)

SpecChat == Init /\ [][NextChat]_vars

\* ------------------------------------------- SpecPoll: the polling page
\* The chat page of a participant asks api_messages for what came after the
\* last message it received, adds the answer to what it shows and moves its
\* cursor to the last message of the answer
poll(u, cid) ==
    /\ cid \in DOMAIN claims
    /\ IsParticipant(claims[cid], items[claims[cid].item], u)
    /\ client.claim \in {NA, cid}
    /\ \E l \in Orderings(msgs, MessagesSince(msgs, cid, client.cursor)) :
          /\ resp' = Listing(AboutClaim("poll", "ok", cid), client.cursor, l)
          /\ client' = [claim |-> cid,
                        cursor |-> IF l = << >> THEN client.cursor
                                   ELSE l[Len(l)],
                        seen |-> client.seen \cup Listed(l)]
    /\ UNCHANGED <<items, claims, itemSeq, claimSeq, reqs, msgs, msgSeq, now>>

\* the two parties send, by the endpoint and by the form, and one page polls
NextPoll ==
    \/ \E token \in Tokens : item_create(1, 1, token)
    \/ \E u \in Users, pk \in ItemIds : claim_create(u, pk, 1)
    \/ Tick
    \/ \E u \in Users, pk \in ClaimIds, body \in ChatBodies :
          claim_detail(u, pk, TRUE, body)
    \/ \E u \in Users, pk \in ClaimIds, body \in ChatBodies :
          api_send_message(u, pk, body)
    \/ \E u \in Users, pk \in ClaimIds : poll(u, pk)

SpecPoll == Init /\ [][NextPoll]_vars

\* --------------------------------- SpecThread: the thread under the views
\* the send endpoint together with the views that change items and claims:
\* submit, respond, item update and item delete; the bodies posted are the
\* blank and the letter
NextThread ==
    \/ \E token \in Tokens : item_create(1, 1, token)
    \/ \E u \in Users, pk \in ItemIds : claim_create(u, pk, 1)
    \/ Tick
    \/ \E u \in Users, pk \in ClaimIds, body \in [1..1 -> Chars] :
          api_send_message(u, pk, body)
    \/ \E u \in Users, pk \in ClaimIds, act \in Actions :
          claim_respond(u, pk, act)
    \/ \E u \in Users, pk \in ItemIds : item_edit(u, pk, 1)
    \/ \E u \in Users, pk \in ItemIds : item_delete(u, pk)

SpecThread == Init /\ [][NextThread]_vars

\* ------------------------------------- SpecTokens: the handshake tokens
\* Several items, whose tokens uuid.uuid4 draws from a space as small as
\* their number, under the views that save an item: create, update, detail,
\* respond, and delete; one title and one proof text are posted
NextTokens ==
    \/ \E u \in Users, token \in 1..MaxTokenItems :
          item_create_upto(MaxTokenItems, u, 1, token)
    \/ \E u \in Users, pk \in 1..MaxTokenItems : item_edit(u, pk, 1)
    \/ \E u \in Users, pk \in 1..MaxTokenItems : item_detail(u, pk)
    \/ \E u \in Users, pk \in 1..MaxTokenItems : item_delete(u, pk)
    \/ \E u \in Users, pk \in 1..MaxTokenItems : claim_create(u, pk, 1)
    \/ \E u \in Users, pk \in ClaimIds, act \in {"approve", "reject"} :
          claim_respond(u, pk, act)

SpecTokens == Init /\ [][NextTokens]_vars

\* ------------------------------- SpecEdit: an item update in two steps
\* item_edit, lines 78-82: the item is loaded, the form is bound to the
\* loaded instance and validated, and its fields are set on the instance
item_edit_load(r, u, pk, title) ==
    /\ reqs[r].pc = "idle"
    /\ IF pk \notin DOMAIN items \/ ~IsFinder(items[pk], u)
       THEN /\ UNCHANGED reqs
            /\ resp' = Plain("item_edit", "not_found")
       ELSE IF title = 0
       THEN /\ UNCHANGED reqs
            /\ resp' = Plain("item_edit", "form_invalid")
       ELSE /\ reqs' = Slot(r, "edit_save", pk, NA, "none",
                            [items[pk] EXCEPT !.title = title], NoClaimRow)
            /\ UNCHANGED resp
    /\ UNCHANGED <<items, claims, itemSeq, claimSeq>>
    /\ UNCHANGED chat

\* item_edit, line 83: obj.save(request=request) writes every column of the
\* instance as it was loaded, the status among them (and inserts the row
\* when it is gone)
item_edit_save(r) ==
    /\ reqs[r].pc = "edit_save"
    /\ items' = ItemSave(items, reqs[r].iid, reqs[r].item)
    /\ resp' = Response("item_edit", "updated", reqs[r].iid, NA, "none",
                        IF reqs[r].iid \in DOMAIN items
                        THEN items[reqs[r].iid].status ELSE NoStatus,
                        NoStatus)
    /\ reqs' = Release(r)
    /\ UNCHANGED <<claims, itemSeq, claimSeq>>
    /\ UNCHANGED chat

\* updates of an item racing the submits and the responds to its claims
NextEdit ==
    \/ \E u \in Users, token \in Tokens : item_create(u, 1, token)
    \/ \E u \in Users, pk \in ItemIds : claim_create(u, pk, 1)
    \/ \E u \in Users, pk \in ClaimIds, act \in Actions :
          claim_respond(u, pk, act)
    \/ \E r \in Reqs, u \in Users, pk \in ItemIds, title \in Titles :
          item_edit_load(r, u, pk, title)
    \/ \E r \in Reqs : item_edit_save(r)

SpecEdit == Init /\ [][NextEdit]_vars

\* ------------------------------------ SpecCascade: deleting among items
\* Several items with claims and messages on them, under delete and under
\* submit, send and approve; one title, one proof text and one message body
\* are posted, and every item gets a token of its own.  The users being
\* interchangeable, the items are reported by the first two of them
NextCascade ==
    \/ \E u \in 1..2 : item_create_upto(MaxTokenItems, u, 1, itemSeq + 1)
    \/ \E u \in Users, pk \in 1..MaxTokenItems : claim_create(u, pk, 1)
    \/ \E u \in Users, pk \in ClaimIds : api_send_message(u, pk, <<"a">>)
    \/ \E u \in Users, pk \in ClaimIds : claim_respond(u, pk, "approve")
    \/ \E u \in Users, pk \in 1..MaxTokenItems : item_delete(u, pk)

SpecCascade == Init /\ [][NextCascade]_vars

\* --------------------------------- SpecHandshake: scanning the QR codes
\* Several items in every status, some deleted again, and the handshake
\* URL called with every token; one title and one proof text are posted
NextHandshake ==
    \/ \E u \in 1..2, token \in 1..MaxTokenItems :
          item_create_upto(MaxTokenItems, u, 1, token)
    \/ \E u \in Users, pk \in 1..MaxTokenItems : claim_create(u, pk, 1)
    \/ \E u \in Users, pk \in ClaimIds : claim_respond(u, pk, "approve")
    \/ \E pk \in 1..MaxTokenItems, status \in ItemStatus :
          admin_item_change(pk, status)
    \/ \E u \in Users, pk \in 1..MaxTokenItems : item_delete(u, pk)
    \/ \E u \in Users, token \in 1..MaxTokenItems : item_handshake(u, token)

SpecHandshake == Init /\ [][NextHandshake]_vars

\* ------------------------------------- SpecLength: texts of every length
\* both write paths of the chat with every text of Bodies posted, the ones
\* longer than BodyMaxLength among them
NextLength ==
    \/ \E token \in Tokens : item_create(1, 1, token)
    \/ \E u \in Users, pk \in ItemIds : claim_create(u, pk, 1)
    \/ \E u \in Users, pk \in ClaimIds, body \in Bodies :
          claim_detail(u, pk, TRUE, body)
    \/ \E u \in Users, pk \in ClaimIds, body \in Bodies :
          api_send_message(u, pk, body)

SpecLength == Init /\ [][NextLength]_vars

\* ---------------------------- SpecWorkflow: create, submit and respond
\* the four operations of the claim workflow and no other view
NextWorkflow ==
    \/ \E u \in Users, title \in Titles, token \in Tokens :
          item_create(u, title, token)
    \/ \E u \in Users, pk \in ItemIds, proof \in Proofs :
          claim_create(u, pk, proof)
    \/ \E u \in Users, pk \in ClaimIds, act \in Actions :
          claim_respond(u, pk, act)

SpecWorkflow == Init /\ [][NextWorkflow]_vars

\* ------------------------------------------------------------ properties
ClaimsOf(cls, iid) == {c \in DOMAIN cls : cls[c].item = iid}

ApprovedOf(cls, iid) == {c \in ClaimsOf(cls, iid) : cls[c].status = APPROVED}

\* the step is the answer of claim_respond to the finder's act on claim c
Responded(c, act) ==
    /\ resp'.op = "claim_respond"
    /\ resp'.outcome = "responded"
    /\ resp'.claim = c
    /\ resp'.act = act

\* every claim other than c is what it was
OtherClaimsUnchanged(c) ==
    /\ DOMAIN claims' = DOMAIN claims
    /\ \A d \in DOMAIN claims : d # c => claims'[d] = claims[d]

\* C1: when the finder approves a Pending claim on a Found item, the claim
\* is Approved and the item Claimed afterwards, and no other claim changed
C1_ApprovePending ==
    [][\A c \in DOMAIN claims :
          (/\ claims[c].status = PENDING
           /\ items[claims[c].item].status = FOUND
           /\ Responded(c, "approve"))
          => (/\ claims'[c].status = APPROVED
              /\ items'[claims[c].item].status = CLAIMED
              /\ OtherClaimsUnchanged(c))]_vars

C1_Witness ==
    /\ resp.op = "claim_respond" /\ resp.act = "approve"
    /\ resp.outcome = "responded"
    /\ resp.preClaim = PENDING /\ resp.preItem = FOUND
    /\ claims[resp.claim].status = APPROVED
    /\ items[resp.item].status = CLAIMED
    /\ \E d \in ClaimsOf(claims, resp.item) : d # resp.claim

\* C2: at most one claim per item is Approved, and an approval of a Pending
\* claim whose item already has another Approved claim fails with
\* InvalidStateTransition and leaves the claim Pending
C2_FirstApprovalWins ==
    /\ \A i \in DOMAIN items : Cardinality(ApprovedOf(claims, i)) <= 1
    /\ (/\ resp.op = "claim_respond" /\ resp.act = "approve"
        /\ resp.preClaim = PENDING
        /\ \E d \in ApprovedOf(claims, resp.item) : d # resp.claim)
       => (/\ resp.outcome = "invalid_state_transition"
           /\ claims[resp.claim].status = PENDING)

\* C3: an approval is never seen half done: no request that has saved the
\* item as Claimed leaves its claim short of Approved for others to read,
\* and none that failed between its two writes leaves such a state behind
HalfApproved(iid, cid) ==
    /\ iid \in DOMAIN items /\ cid \in DOMAIN claims
    /\ items[iid].status = CLAIMED
    /\ claims[cid].status # APPROVED

C3_ApprovalAtomic ==
    /\ \A r \in Reqs :
          (reqs[r].pc = "respond_claim_save" /\ reqs[r].act = "approve")
          => ~HalfApproved(reqs[r].iid, reqs[r].cid)
    /\ (resp.op = "claim_respond" /\ resp.outcome = "failed_between_writes")
       => ~HalfApproved(claims[resp.claim].item, resp.claim)

\* C4: no two claims have the same item and the same seeker, also when two
\* submits of one seeker both pass the check for an existing claim
C4_OneClaimPerSeekerPerItem ==
    \A c, d \in DOMAIN claims :
        (claims[c].item = claims[d].item /\ claims[c].seeker = claims[d].seeker)
        => c = d

\* the second of two racing submits has met the constraint
C4_Witness ==
    /\ resp.op = "claim_create" /\ resp.outcome = "integrity_error"
    /\ Cardinality(DOMAIN claims) = 1
    /\ \A r \in Reqs : reqs[r].pc = "idle"

\* C5: a submit by a seeker who already has a claim on the item answers with
\* that claim, whatever proof text is posted, and changes no claim
C5_SubmitIdempotent ==
    [][\A c \in DOMAIN claims, proof \in Proofs :
          claim_create(claims[c].seeker, claims[c].item, proof)
          => (/\ resp'.outcome = "existing"
              /\ resp'.claim = c
              /\ claims' = claims
              /\ claimSeq' = claimSeq)]_vars

C5_Witness ==
    /\ resp.op = "claim_create" /\ resp.outcome = "existing"
    /\ resp.proof # claims[resp.claim].proof_of_ownership
    /\ claims[resp.claim].status = PENDING
    /\ Cardinality(DOMAIN claims) = 1

\* C6: a submit by the finder of the item is refused and creates no claim,
\* and no claim has the finder of its item as seeker
NoSelfClaim ==
    \A c \in DOMAIN claims : claims[c].seeker # items[claims[c].item].finder

C6_SelfClaimForbidden ==
    /\ []NoSelfClaim
    /\ [][\A i \in DOMAIN items, proof \in Proofs :
             claim_create(items[i].finder, i, proof)
             => (resp'.outcome = "own_item" /\ claims' = claims)]_vars

C6_Witness ==
    /\ resp.op = "claim_create" /\ resp.outcome = "own_item"
    /\ claims = << >>
    /\ DOMAIN items # {}

\* C7: a respond by the finder on a claim that is Approved or Rejected is
\* refused as an invalid-state error and changes no status
C7_TerminalClaims ==
    [][\A c \in DOMAIN claims, act \in {"approve", "reject"} :
          (/\ claims[c].status \in {APPROVED, REJECTED}
           /\ claim_respond(items[claims[c].item].finder, c, act))
          => (/\ resp'.outcome = "invalid_state_transition"
              /\ claims' = claims
              /\ items' = items)]_vars

\* C8: under create, update, detail view, approve and reject the status of
\* an item only moves Found -> Claimed -> Returned
Rank(status) ==
    IF status = FOUND THEN 0 ELSE IF status = CLAIMED THEN 1 ELSE 2

C8_StatusNeverRegresses ==
    [][resp'.op \in {"item_create", "item_edit", "item_detail", "claim_respond"}
          => \A i \in DOMAIN items \cap DOMAIN items' :
                Rank(items'[i].status) >= Rank(items[i].status)]_vars

\* C9: no claim is created on an item that is Claimed or Returned
C9_NoClaimOnClaimedItem ==
    [][\A c \in DOMAIN claims' \ DOMAIN claims :
          /\ claims'[c].item \in DOMAIN items
          /\ items[claims'[c].item].status = FOUND]_vars

\* C10: rejecting a Pending claim makes it Rejected and leaves the item and
\* every other claim as they were; the item's token still resolves to it and
\* a seeker without a claim on it can still submit one
CanSubmit(its, cls, u, iid) ==
    \A proof \in 1..NumProofs :
        /\ ClaimCreateDecision(its, cls, u, iid, proof) = "insert"
        /\ ClaimSaveOk(its, cls, claimSeq + 1, NewClaim(iid, u, proof))

C10_RejectFrame ==
    [][\A c \in DOMAIN claims :
          (claims[c].status = PENDING /\ Responded(c, "reject"))
          => LET i == claims[c].item
             IN  /\ claims'[c] = [claims[c] EXCEPT !.status = REJECTED]
                 /\ items' = items
                 /\ OtherClaimsUnchanged(c)
                 /\ ResolveHandshake(items', items[i].handshake_uuid) = i
                 /\ \A u \in Users :
                       (/\ u # items[i].finder
                        /\ \A d \in ClaimsOf(claims', i) : claims'[d].seeker # u)
                       => CanSubmit(items', claims', u, i)]_vars

C10_Witness ==
    /\ resp.op = "claim_respond" /\ resp.act = "reject"
    /\ resp.outcome = "responded" /\ resp.preClaim = PENDING
    /\ claims[resp.claim].status = REJECTED
    /\ items[resp.item].status = FOUND
    /\ \E u \in Users : CanSubmit(items, claims, u, resp.item)

\* C11: a respond by anyone but the finder of the claim's item, the seeker
\* of the claim included, is refused (the view raises Http404) and leaves
\* the claim and the item as they were
C11_OnlyFinderResponds ==
    [][\A c \in DOMAIN claims, u \in Users, act \in Actions :
          (u # items[claims[c].item].finder /\ claim_respond(u, c, act))
          => (/\ resp'.op = "claim_respond"
              /\ resp'.outcome = "not_found"
              /\ claims' = claims
              /\ items' = items)]_vars

\* the seeker of a Pending claim was refused
C11_Witness ==
    /\ resp.op = "claim_respond" /\ resp.outcome = "not_found"
    /\ resp.claim \in DOMAIN claims
    /\ resp.user = claims[resp.claim].seeker
    /\ claims[resp.claim].status = PENDING
    /\ items[claims[resp.claim].item].status = FOUND

\* user u is neither the seeker of claim c nor the finder of its item
Outsider(c, u) == u # claims[c].seeker /\ u # items[claims[c].item].finder

\* C12: a user who is neither the seeker of a claim nor the finder of its
\* item is refused by the message read and the message send (403) and by the
\* claim detail page, GET or POST (the page answers its refusal as Http404),
\* and none of the three changes the messages
C12_OutsidersRefused ==
    [][/\ resp'.op = "api_messages"
          => \A c \in DOMAIN claims, u \in Users, after \in MsgIds \cup {NA} :
                (Outsider(c, u) /\ api_messages(u, c, after))
                => (resp'.outcome = "forbidden" /\ msgs' = msgs)
       /\ resp'.op = "api_send_message"
          => \A c \in DOMAIN claims, u \in Users, body \in ChatBodies :
                (Outsider(c, u) /\ api_send_message(u, c, body))
                => (resp'.outcome = "forbidden" /\ msgs' = msgs)
       /\ resp'.op = "claim_detail"
          => \A c \in DOMAIN claims, u \in Users, body \in ChatBodies :
                (/\ Outsider(c, u)
                 /\ \/ claim_detail(u, c, FALSE, << >>)
                    \/ claim_detail(u, c, TRUE, body))
                => (resp'.outcome = "not_found" /\ msgs' = msgs)]_vars

\* an outsider's send on a claim with messages was refused
C12_Witness ==
    /\ resp.op = "api_send_message" /\ resp.outcome = "forbidden"
    /\ resp.claim \in DOMAIN claims
    /\ Outsider(resp.claim, resp.user)
    /\ ThreadOf(msgs, resp.claim) # {}

\* C13: the sender of every message is the seeker of the message's claim or
\* the finder of that claim's item, whether the claim page's form or the
\* send endpoint created it
C13_SendersAreParticipants ==
    \A m \in DOMAIN msgs :
        \/ msgs[m].sender = claims[msgs[m].claim].seeker
        \/ msgs[m].sender = items[claims[msgs[m].claim].item].finder

\* the form of the claim page has added the seeker's message to a thread
\* that holds a message of the finder
C13_Witness ==
    /\ resp.op = "claim_detail" /\ resp.outcome = "redirect"
    /\ resp.msg \in DOMAIN msgs
    /\ msgs[resp.msg].sender = claims[resp.claim].seeker
    /\ \E m \in ThreadOf(msgs, resp.claim) :
          msgs[m].sender = items[claims[resp.claim].item].finder

\* message m was created before message n: at an earlier time, or at the
\* same time and inserted first (pks are handed out in insertion order here)
CreatedBefore(m, n) ==
    \/ msgs[m].created_at < msgs[n].created_at
    \/ msgs[m].created_at = msgs[n].created_at /\ m < n

\* the step is a second api_messages call for the same claim with the same
\* cursor, and nothing was sent since the first
SameCallAgain ==
    /\ resp.op = "api_messages" /\ resp.outcome = "ok"
    /\ resp'.op = "api_messages" /\ resp'.outcome = "ok"
    /\ resp'.claim = resp.claim /\ resp'.after = resp.after
    /\ msgs' = msgs

\* C14: the list api_messages returns is in order of creation, and a second
\* call with the same cursor and no send in between returns the same list,
\* also when two messages of the thread have the same created_at
C14_ListOrderedAndRepeatable ==
    /\ [](resp.op = "api_messages"
          => \A i, j \in 1..Len(resp.list) :
                i < j => CreatedBefore(resp.list[i], resp.list[j]))
    /\ [][SameCallAgain => resp'.list = resp.list]_vars

\* C15: api_messages on a claim returns exactly the messages of that claim
\* created later than the cursor message when the cursor names a message,
\* and the whole thread of the claim when there is no cursor or it names no
\* message; it never returns a message of another claim
C15_ListSince ==
    (resp.op = "api_messages" /\ resp.outcome = "ok")
    => /\ Len(resp.list) = Cardinality(Listed(resp.list))
       /\ \A m \in Listed(resp.list) : msgs[m].claim = resp.claim
       /\ IF resp.after # NA /\ resp.after \in DOMAIN msgs
          THEN Listed(resp.list) =
                  {m \in DOMAIN msgs :
                      /\ msgs[m].claim = resp.claim
                      /\ msgs[m].created_at > msgs[resp.after].created_at}
          ELSE Listed(resp.list) =
                  {m \in DOMAIN msgs : msgs[m].claim = resp.claim}

\* a call with a cursor returned the later message of the claim and left out
\* the cursor message and a later message of another claim
C15_Witness ==
    /\ resp.op = "api_messages" /\ resp.outcome = "ok"
    /\ resp.after \in ThreadOf(msgs, resp.claim)
    /\ resp.list # << >>
    /\ \E m \in DOMAIN msgs :
          /\ msgs[m].claim # resp.claim
          /\ msgs[m].created_at > msgs[resp.after].created_at

\* C16: polling delivers every message: whatever the two parties send and
\* whenever, every message of the claim a page polls has been received by
\* the page or is in the answer to its next poll, also when it has the same
\* created_at as the page's cursor message
C16_PollingDelivers ==
    client.claim # NA
    => \A m \in ThreadOf(msgs, client.claim) :
          \/ m \in client.seen
          \/ m \in MessagesSince(msgs, client.claim, client.cursor)

\* the text is empty or holds blanks only
IsBlank(b) == \A i \in 1..Len(b) : b[i] = " "

\* the step adds exactly one message, sent by u on claim c with a body that
\* is not blank, and changes no other
AppendsOne(c, u) ==
    \E m \in DOMAIN msgs' \ DOMAIN msgs :
        /\ DOMAIN msgs' = DOMAIN msgs \cup {m}
        /\ \A n \in DOMAIN msgs : msgs'[n] = msgs[n]
        /\ msgs'[m].claim = c /\ msgs'[m].sender = u
        /\ ~IsBlank(msgs'[m].body)
        /\ resp'.msg = m

\* C17: a send with an empty or blank body is refused as invalid and adds
\* nothing, by the endpoint and by the form of the claim page, so no message
\* has a blank body; a participant's send with any other body adds exactly
\* one message to the thread of the claim, and the endpoint returns it
C17_SendValidated ==
    /\ [](\A m \in DOMAIN msgs : ~IsBlank(msgs[m].body))
    /\ [][/\ resp'.op = "api_send_message"
             => \A c \in DOMAIN claims, u \in Users, body \in ChatBodies :
                   (~Outsider(c, u) /\ api_send_message(u, c, body))
                   => IF IsBlank(body)
                      THEN resp'.outcome = "empty_message" /\ msgs' = msgs
                      ELSE resp'.outcome = "created" /\ AppendsOne(c, u)
          /\ resp'.op = "claim_detail"
             => \A c \in DOMAIN claims, u \in Users, body \in ChatBodies :
                   (~Outsider(c, u) /\ claim_detail(u, c, TRUE, body))
                   => IF IsBlank(body)
                      THEN resp'.outcome = "form_invalid" /\ msgs' = msgs
                      ELSE resp'.outcome = "redirect" /\ AppendsOne(c, u)]_vars

\* the endpoint refused a blank body on a claim whose thread has a message
C17_Witness ==
    /\ resp.op = "api_send_message" /\ resp.outcome = "empty_message"
    /\ ThreadOf(msgs, resp.claim) # {}

\* the thread of claim c: its messages in order of creation (created_at,
\* then insertion), each with its row
RECURSIVE ThreadSeq(_, _)
ThreadSeq(ms, S) ==
    IF S = {} THEN << >>
    ELSE LET m == CHOOSE x \in S : \A y \in S \ {x} :
                     \/ ms[x].created_at < ms[y].created_at
                     \/ ms[x].created_at = ms[y].created_at /\ x < y
         IN  << <<m, ms[m]>> >> \o ThreadSeq(ms, S \ {m})

Thread(ms, c) == ThreadSeq(ms, ThreadOf(ms, c))

IsPrefix(s, t) == Len(s) <= Len(t) /\ SubSeq(t, 1, Len(s)) = s

\* C18: the thread of a claim is append-only: in every step that leaves the
\* claim's item in place (send, submit, respond, item update) the thread
\* before is a prefix of the thread after, so no message is edited, removed
\* or moved
C18_ThreadAppendOnly ==
    [][\A c \in DOMAIN claims :
          claims[c].item \in DOMAIN items'
          => (/\ c \in DOMAIN claims'
              /\ msgs' = msgs \/ IsPrefix(Thread(msgs, c), Thread(msgs', c)))]_vars

\* the finder has responded to a claim whose thread holds two messages with
\* different timestamps
C18_Witness ==
    /\ resp.op = "claim_respond" /\ resp.outcome = "responded"
    /\ \E m, n \in ThreadOf(msgs, resp.claim) :
          msgs[m].created_at < msgs[n].created_at

\* C19: no two items carry the same handshake token, and no step (update,
\* approval, rejection, detail view) changes the token of an item, so it is
\* the one assigned when the item was created
C19_TokensUniqueAndStable ==
    /\ [](\A i, j \in DOMAIN items :
            i # j => items[i].handshake_uuid # items[j].handshake_uuid)
    /\ [][\A i \in DOMAIN items \cap DOMAIN items' :
             items'[i].handshake_uuid = items[i].handshake_uuid]_vars

\* two items exist and a claim on one of them has been approved
C19_Witness ==
    /\ Cardinality(DOMAIN items) = 2
    /\ resp.op = "claim_respond" /\ resp.outcome = "responded"
    /\ resp.act = "approve"
    /\ items[resp.item].status = CLAIMED

\* C20: an item update leaves the status of the item as it was stored just
\* before the update's write, also when the update loaded the item before
\* an approval of one of its claims was saved
C20_UpdateKeepsStatus ==
    [][\A r \in Reqs :
          (reqs[r].iid \in DOMAIN items /\ item_edit_save(r))
          => items'[reqs[r].iid].status = items[reqs[r].iid].status]_vars

\* C21: an update or a delete of an item by anyone but its finder is refused
\* (get_object_or_404 with finder=request.user answers Http404) and leaves
\* the item, its claims and their messages as they were
C21_OnlyFinderEditsOrDeletes ==
    [][resp'.op \in {"item_edit", "item_delete"}
          => \A i \in DOMAIN items, u \in Users :
                (/\ u # items[i].finder
                 /\ \/ item_delete(u, i)
                    \/ \E title \in Titles : item_edit(u, i, title))
                => (/\ resp'.outcome = "not_found"
                    /\ items' = items
                    /\ claims' = claims
                    /\ msgs' = msgs)]_vars

\* the seeker of a claim with a message was refused the delete of the item
C21_Witness ==
    /\ resp.op = "item_delete" /\ resp.outcome = "not_found"
    /\ resp.item \in DOMAIN items
    /\ resp.user # items[resp.item].finder
    /\ \E c \in ClaimsOf(claims, resp.item) :
          claims[c].seeker = resp.user /\ ThreadOf(msgs, c) # {}

\* every claim is on an existing item and every message on an existing claim
NoOrphans ==
    /\ \A c \in DOMAIN claims : claims[c].item \in DOMAIN items
    /\ \A m \in DOMAIN msgs : msgs[m].claim \in DOMAIN claims

\* the items the step deletes
Deleted == DOMAIN items \ DOMAIN items'

\* C22: a delete of an item removes exactly the claims of that item and the
\* messages of those claims and leaves every other row as it was; no claim
\* is on a missing item and no message on a missing claim; and no step that
\* deletes no item removes a claim
C22_DeleteCascades ==
    /\ []NoOrphans
    /\ [][/\ DOMAIN claims \cap DOMAIN claims'
               = {c \in DOMAIN claims : claims[c].item \notin Deleted}
          /\ DOMAIN msgs \cap DOMAIN msgs'
               = {m \in DOMAIN msgs : claims[msgs[m].claim].item \notin Deleted}
          /\ Deleted # {}
             => /\ \A i \in DOMAIN items' : items'[i] = items[i]
                /\ \A c \in DOMAIN claims' : claims'[c] = claims[c]
                /\ \A m \in DOMAIN msgs' : msgs'[m] = msgs[m]]_vars

\* an item with a claim and a message was deleted, and the claim and the
\* message on the other item are still there
C22_Witness ==
    /\ resp.op = "item_delete" /\ resp.outcome = "deleted"
    /\ Cardinality(DOMAIN items) = 1
    /\ claimSeq = 2 /\ Cardinality(DOMAIN claims) = 1
    /\ msgSeq >= 2 /\ Cardinality(DOMAIN msgs) = 1

\* the items that carry the token
Carriers(token) == {i \in DOMAIN items : items[i].handshake_uuid = token}

\* C23: the handshake URL writes nothing; a token that an item carries is
\* routed to the claim form of that item and of no other, whether the item
\* is Found, Claimed or Returned; a token that no item carries, the token
\* of a deleted item included, is answered not-found
C23_HandshakeResolves ==
    [][resp'.op = "item_handshake"
          => \A u \in Users, token \in 1..MaxTokenItems :
                item_handshake(u, token)
                => /\ UNCHANGED <<items, claims, itemSeq, claimSeq, msgs, msgSeq>>
                   /\ IF Carriers(token) = {}
                      THEN resp'.outcome = "not_found"
                      ELSE /\ resp'.outcome = "redirect_claim_create"
                           /\ Carriers(token) = {resp'.item}]_vars

\* with two items in place, the token of one that is Returned was routed
\* to its claim form
C23_Witness ==
    /\ resp.op = "item_handshake"
    /\ resp.outcome = "redirect_claim_create"
    /\ Cardinality(DOMAIN items) = 2
    /\ resp.preItem = RETURNED
    /\ items[resp.item].status = RETURNED

\* C24: no request is answered with a raw storage error: the submit that
\* loses the race for the (item, seeker) constraint is answered with the
\* existing claim, and of two racing approvals on one item the one that
\* saves last is answered with an invalid-state error instead of succeeding
C24_StorageErrorsTyped ==
    /\ resp.outcome # "integrity_error"
    /\ (/\ resp.op = "claim_respond" /\ resp.outcome = "responded"
        /\ resp.act = "approve" /\ resp.claim \in DOMAIN claims)
       => ApprovedOf(claims, claims[resp.claim].item) = {resp.claim}

\* C25: no stored message has a body longer than the max_length of the
\* field, whether the form of the claim page or the send endpoint stored it
C25_BodyBounded ==
    \A m \in DOMAIN msgs : Len(msgs[m].body) <= BodyMaxLength

\* C26: under create, submit, approve and reject an item that is Claimed
\* has an Approved claim and an item that is Found has none
C26_StatusesConsistent ==
    \A i \in DOMAIN items :
        /\ items[i].status = CLAIMED => ApprovedOf(claims, i) # {}
        /\ items[i].status = FOUND => ApprovedOf(claims, i) = {}

\* the claims the step creates
Created == DOMAIN claims' \ DOMAIN claims

====
